---- MODULE Spec2Model ----
(***************************************************************************)
(* A model of server.js: an Express server that stores uploaded media      *)
(* files in uploads/ and the list of post records in posts.json.           *)
(*                                                                         *)
(* Node runs one JavaScript turn at a time.  Every route handler uses the  *)
(* synchronous fs calls only, so a handler body is one atomic step.  The   *)
(* only asynchronous stage is multer's upload.single('file') middleware,   *)
(* which runs before the POST handler: between the moment multer has       *)
(* stored a file and the moment the POST handler runs, other requests may  *)
(* be served.                                                              *)
(*                                                                         *)
(* JavaScript strings are TLA+ strings (Len, SubSeq and \o act on them);   *)
(* other JavaScript values are tagged records.                             *)
(***************************************************************************)
EXTENDS Integers, Sequences, FiniteSets, TLC

\* ------------------------------------------------------------------ bounds

\* Date.now() takes the values 1..MaxClock.
MaxClock == 2

\* Math.round(Math.random() * 1E9) takes the values 0..MaxRnd.
MaxRnd == 1

\* The number of POST requests with a file part that the server receives in
\* one run.
MaxUploads == 2

\* ---------------------------------------------------------- JavaScript values

Undefined == [t |-> "undefined"]

Null == [t |-> "null"]

Str(s) == [t |-> "string", s |-> s]

Arr(a) == [t |-> "array", a |-> a]

Num(n) == [t |-> "number", n |-> n]

\* JavaScript truthiness of a value: undefined, null, "" and 0 are falsy.
Truthy(v) ==
    CASE v.t = "undefined" -> FALSE
      [] v.t = "null" -> FALSE
      [] v.t = "string" -> v.s # ""
      [] v.t = "number" -> v.n # 0
      [] OTHER -> TRUE

\* ------------------------------------------------------------------ strings

CharAt(s, i) == SubSeq(s, i, i)

\* String.prototype.includes
Contains(s, w) ==
    \E i \in 1..(Len(s) - Len(w) + 1) : SubSeq(s, i, i + Len(w) - 1) = w

\* String.prototype.startsWith
StartsWith(s, p) == Len(s) >= Len(p) /\ SubSeq(s, 1, Len(p)) = p

UpperChars == <<"A", "B", "C", "D", "E", "F", "G", "H", "I", "J", "K", "L", "M",
                "N", "O", "P", "Q", "R", "S", "T", "U", "V", "W", "X", "Y", "Z">>

LowerChars == <<"a", "b", "c", "d", "e", "f", "g", "h", "i", "j", "k", "l", "m",
                "n", "o", "p", "q", "r", "s", "t", "u", "v", "w", "x", "y", "z">>

ToLowerChar(c) ==
    IF \E i \in 1..Len(UpperChars) : UpperChars[i] = c
    THEN LowerChars[CHOOSE i \in 1..Len(UpperChars) : UpperChars[i] = c]
    ELSE c

\* String.prototype.toLowerCase
RECURSIVE ToLowerCase(_)
ToLowerCase(s) ==
    IF s = "" THEN ""
    ELSE ToLowerChar(CharAt(s, 1)) \o ToLowerCase(SubSeq(s, 2, Len(s)))

\* The largest index of character c in s, 0 when s has none.
LastIndexOf(s, c) ==
    LET hits == {i \in 1..Len(s) : CharAt(s, i) = c}
    IN  IF hits = {} THEN 0 ELSE CHOOSE i \in hits : \A j \in hits : j <= i

IsSpace(c) == c \in {" ", "\t", "\n"}

\* String.prototype.trim
RECURSIVE Trim(_)
Trim(s) ==
    IF s = "" THEN ""
    ELSE IF IsSpace(CharAt(s, 1)) THEN Trim(SubSeq(s, 2, Len(s)))
    ELSE IF IsSpace(CharAt(s, Len(s))) THEN Trim(SubSeq(s, 1, Len(s) - 1))
    ELSE s

\* path.basename: the part after the last "/".
BaseName(p) == SubSeq(p, LastIndexOf(p, "/") + 1, Len(p))

\* path.extname: from the last "." of the base name to its end; "" when the
\* base name has no ".", starts with its only "." or is "..".
ExtName(p) ==
    LET b == BaseName(p)
        d == LastIndexOf(b, ".")
    IN  IF d <= 1 \/ b = ".." THEN "" ELSE SubSeq(b, d, Len(b))

\* ------------------------------------------------------------ upload (multer)

\* The alternatives of the regular expression allowedTypes.
allowedTypes == {"jpeg", "jpg", "png", "gif", "webp", "mp4", "mov", "avi", "webm"}

\* allowedTypes.test(s): the expression has no anchors, so it matches when
\* any alternative occurs anywhere in s.
AllowedTest(s) == \E w \in allowedTypes : Contains(s, w)

\* fileFilter: TRUE when the file is accepted.
fileFilter(file) ==
    LET extname == AllowedTest(ToLowerCase(ExtName(file.originalname)))
        mimetype == AllowedTest(file.mimetype)
    IN  mimetype /\ extname

\* limits.fileSize, in bytes.
fileSize == 52428800

\* ------------------------------------------------------------ JSON and numbers

DigitChars == "0123456789"

IsDigit(c) == Len(c) = 1 /\ Contains(DigitChars, c)

DigitVal(c) == (CHOOSE i \in 1..10 : CharAt(DigitChars, i) = c) - 1

\* The value of the longest prefix of s made of decimal digits, and its length.
RECURSIVE DigitPrefix(_, _, _)
DigitPrefix(s, i, acc) ==
    IF i <= Len(s) /\ IsDigit(CharAt(s, i))
    THEN DigitPrefix(s, i + 1, 10 * acc + DigitVal(CharAt(s, i)))
    ELSE [n |-> acc, len |-> i - 1]

NaN == [t |-> "number", nan |-> TRUE]

\* parseInt(s) for the decimal strings of the model: leading white space is
\* skipped, a sign is read, then the longest run of digits is converted and
\* whatever follows it is ignored; NaN when there is no digit.  (The "0x"
\* prefix of hexadecimal literals is not in the model's inputs.)
parseInt(s) ==
    LET u == IF s = "" THEN ""
             ELSE IF IsSpace(CharAt(s, 1)) THEN Trim(s) ELSE s
        neg == StartsWith(u, "-")
        v == IF neg \/ StartsWith(u, "+") THEN SubSeq(u, 2, Len(u)) ELSE u
        d == DigitPrefix(v, 1, 0)
    IN  IF d.len = 0 THEN NaN ELSE Num(IF neg THEN 0 - d.n ELSE d.n)

\* The index of the first occurrence of c in s at or after from, 0 if none.
IndexOfFrom(s, c, from) ==
    LET hits == {i \in from..Len(s) : CharAt(s, i) = c}
    IN  IF hits = {} THEN 0 ELSE CHOOSE i \in hits : \A j \in hits : i <= j

\* A JSON string literal (without escapes) at the start of s.
JsonString(s) ==
    LET j == IndexOfFrom(s, "\"", 2)
    IN  IF StartsWith(s, "\"") /\ j > 0
        THEN [ok |-> TRUE, v |-> SubSeq(s, 2, j - 1), rest |-> SubSeq(s, j + 1, Len(s))]
        ELSE [ok |-> FALSE, v |-> "", rest |-> ""]

\* The elements of a JSON array of strings, s being the text after "[" or ",".
RECURSIVE JsonElems(_, _)
JsonElems(s, acc) ==
    LET e == JsonString(s)
    IN  IF ~e.ok THEN [ok |-> FALSE, v |-> <<>>]
        ELSE IF e.rest = "]" THEN [ok |-> TRUE, v |-> Append(acc, e.v)]
        ELSE IF StartsWith(e.rest, ",")
             THEN JsonElems(SubSeq(e.rest, 2, Len(e.rest)), Append(acc, e.v))
        ELSE [ok |-> FALSE, v |-> <<>>]

\* JSON.parse(s) for the texts of the model (arrays of strings, strings and
\* unsigned integers, without white space): ok is FALSE where JSON.parse
\* throws a SyntaxError.
JsonParse(s) ==
    LET e == JsonString(s)
        d == DigitPrefix(s, 1, 0)
        r == JsonElems(SubSeq(s, 2, Len(s)), <<>>)
    IN  IF s = "[]" THEN [ok |-> TRUE, v |-> Arr(<<>>)]
        ELSE IF StartsWith(s, "[") THEN [ok |-> r.ok, v |-> Arr(r.v)]
        ELSE IF e.ok /\ e.rest = "" THEN [ok |-> TRUE, v |-> Str(e.v)]
        ELSE IF s # "" /\ d.len = Len(s) THEN [ok |-> TRUE, v |-> Num(d.n)]
        ELSE [ok |-> FALSE, v |-> Undefined]

\* Milliseconds in a day.
MsPerDay == 86400000

Pad2(n) == IF n < 10 THEN "0" \o ToString(n) ELSE ToString(n)

\* new Date().toISOString().split('T')[0] at clock milliseconds after the
\* epoch, for clocks within January 1970.
ISODate(clock) == "1970-01-" \o Pad2(1 + (clock \div MsPerDay))

\* ------------------------------------------------------------------- inputs

\* The file parts the clients send: originalname, mimetype and size in bytes.
Files ==
    {[originalname |-> "a.jpg", mimetype |-> "image/jpeg", size |-> 1],
     [originalname |-> "c.txt", mimetype |-> "text/plain", size |-> 1],
     [originalname |-> "d.png", mimetype |-> "image/png", size |-> fileSize + 1]}

\* The fields of the multipart body of a POST: strings, or absent.
CreateBodies ==
    [title : {Undefined, Str(""), Str("T")},
     description : {Str(""), Str("D")},
     date : {Undefined},
     tags : {Undefined, Str("oops")},
     externalLink : {Undefined}]

\* The JSON bodies of a PUT.
UpdateBodies ==
    [title : {Undefined, Str("U")},
     description : {Undefined},
     date : {Undefined},
     tags : {Undefined},
     externalLink : {Undefined}]

\* The :id path parameters.
PathIds == {"1", "2"}

\* Path parameters that are no integer literals as well: digits followed by
\* letters, and letters only.
ReadPathIds == {"1", "2", "1abc", "abc"}

\* File parts over more declared names and MIME types, all within the size
\* limit.
FilterFiles ==
    [originalname : {"a.jpg", "a.JPG", "a.jpeg", "a.png", "a.gif", "a.webp",
                     "a.mp4", "a.mov", "a.avi", "a.webm", "a.txt", "a.jpgx",
                     "a.mp4.txt", "png", ".png"},
     mimetype : {"image/jpeg", "image/png", "video/mp4", "video/quicktime",
                 "text/plain", "IMAGE/PNG"},
     size : {1}]

\* fileFilter on the file parts of the model, computed once.
accepted == [file \in Files \cup FilterFiles |-> fileFilter(file)]

\* path.extname(file.originalname) on the file parts of the model, computed
\* once.
extname == [file \in Files \cup FilterFiles |-> ExtName(file.originalname)]

\* parseInt(req.params.id) on the path parameters of the model, computed once.
paramId == [idParam \in PathIds \cup ReadPathIds |-> parseInt(idParam)]

\* storage.filename, with clock the value of Date.now() and rnd the value of
\* Math.round(Math.random() * 1E9).
filename(file, clock, rnd) ==
    ToString(clock) \o "-" \o ToString(rnd) \o extname[file]

\* --------------------------------------------------------------------- state

VARIABLES
    postsJson,   \* the array stored in ./posts.json
    uploads,     \* the names of the files in uploads/
    now,         \* Date.now()
    inflight,    \* the POST requests multer has parsed, handler not yet run
    last,        \* the last response sent
    serial,      \* the acknowledged mutations applied one after the other
    raced,       \* two acknowledged mutations have overlapped in time
    nUploads,    \* the number of POST requests with a file part received
    ioFaults,    \* whether fs.unlinkSync may fail on an existing file
    readable     \* whether ./posts.json can be read and is JSON text

vars == <<postsJson, uploads, now, inflight, last, serial, raced, nUploads, ioFaults, readable>>

\* readPosts: the parsed content of posts.json.
readPosts == postsJson

\* A readPosts that catches the failure and goes on.
readSwallows == FALSE

\* readPosts throws: fs.readFileSync fails or JSON.parse meets text that is
\* not JSON.
readThrows == ~readable

\* writePosts(posts): the content of posts.json after the call.
writePosts(posts) == posts

\* `/uploads/${req.file.filename}`
UrlOf(name) == "/uploads/" \o name

\* The file in uploads/ that path.join(__dirname, url) names.
FileOf(url) ==
    IF StartsWith(url, "/uploads/") THEN SubSeq(url, 10, Len(url)) ELSE url

\* posts.findIndex(p => p.id === id): 0 stands for -1, indices start at 1.
findIndex(posts, id) ==
    LET hits == {i \in 1..Len(posts) : Num(posts[i].id) = id}
    IN  IF hits = {} THEN 0 ELSE CHOOSE i \in hits : \A j \in hits : i <= j

\* A handler that writes its own record over the document it has read.
unshiftOverwrite(posts, post) == <<post>>

\* A handler that adds its record at the end of the array (posts.push).
push(posts, post) == posts \o <<post>>

\* posts.unshift(post)
unshift(posts, post) == <<post>> \o posts

\* posts.splice(i, 1)
splice(posts, i) == SubSeq(posts, 1, i - 1) \o SubSeq(posts, i + 1, Len(posts))

\* A handler that trims the link without testing what is left of it.
normLinkBlank(externalLink) ==
    IF Truthy(externalLink) THEN Str(Trim(externalLink.s)) ELSE Null

\* A handler that stores the link as it was sent when it is not blank.
normLinkNoTrim(externalLink) ==
    IF Truthy(externalLink) /\ Trim(externalLink.s) # ""
    THEN externalLink ELSE Null

\* externalLink && externalLink.trim() ? externalLink.trim() : null
normLink(externalLink) ==
    IF Truthy(externalLink) /\ Trim(externalLink.s) # ""
    THEN Str(Trim(externalLink.s)) ELSE Null

\* A response: the route that sent it, its status, the id of the request (the
\* parsed path parameter, or the id given to a created post), the error
\* message and the posts of the JSON body.
Response(op, status, id, error, body) ==
    [op |-> op, status |-> status, id |-> id, error |-> error, body |-> body]

\* An acknowledged mutation, as its response describes it: the operation,
\* the id it was about and the record it created or returned.
Ack(op, id, post) == [op |-> op, id |-> id, post |-> post]

\* The document after the acknowledged mutation a is applied to doc: a create
\* puts its record first, a delete removes the first record with its id, an
\* update puts the record it returned in the place of the first record with
\* its id.
ApplyAck(doc, a) ==
    LET hits == {i \in 1..Len(doc) : Num(doc[i].id) = a.id}
        k == CHOOSE i \in hits : \A j \in hits : i <= j
    IN  CASE a.op = "create" -> <<a.post>> \o doc
          [] a.op = "delete" /\ hits # {} ->
                SubSeq(doc, 1, k - 1) \o SubSeq(doc, k + 1, Len(doc))
          [] a.op = "update" /\ hits # {} -> [doc EXCEPT ![k] = a.post]
          [] OTHER -> doc

\* The requests in flight once a mutation has been acknowledged: each has
\* overlapped with that mutation.
Overtaken(reqs) == {[r EXCEPT !.overtaken = TRUE] : r \in reqs}

Init0 ==
    /\ postsJson = <<>>
    /\ uploads = {}
    /\ now = 1
    /\ inflight = {}
    /\ last = Response("none", 0, NaN, "", <<>>)
    /\ serial = <<>>
    /\ raced = FALSE
    /\ nUploads = 0
    /\ readable = TRUE

Init == Init0 /\ ioFaults = FALSE

\* ------------------------------------------------------------------- actions

\* Date.now() advances.
Tick ==
    /\ now < MaxClock
    /\ now' = now + 1
    /\ UNCHANGED <<postsJson, uploads, inflight, last, serial, raced, nUploads, ioFaults, readable>>

\* upload.single('file') on a POST /api/posts that carries a file part.  A file
\* that fileFilter refuses, or that is larger than limits.fileSize, makes
\* multer pass an Error to next(): the route handler does not run and
\* Express's default error handler answers 500 (the error has no status).
\* For a file over the limit multer removes what it wrote under the chosen
\* name.  An accepted file is written under the chosen name and the request
\* goes on to the route handler; nothing is answered yet.
Upload(file, rnd) ==
    /\ nUploads < MaxUploads
    /\ nUploads' = nUploads + 1
    /\ LET name == filename(file, now, rnd)
       IN  IF ~accepted[file]
           THEN /\ last' = Response("create", 500, NaN, "Solo immagini e video sono permessi!", <<>>)
                /\ UNCHANGED <<uploads, inflight>>
           ELSE IF file.size > fileSize
           THEN /\ uploads' = uploads \ {name}
                /\ last' = Response("create", 500, NaN, "File too large", <<>>)
                /\ UNCHANGED inflight
           ELSE /\ uploads' = uploads \cup {name}
                /\ inflight' = inflight \cup {[seq |-> nUploads + 1, filename |-> name,
                                                mimetype |-> file.mimetype,
                                                overtaken |-> FALSE]}
                /\ UNCHANGED last
    /\ UNCHANGED <<postsJson, now, serial, raced, ioFaults, readable>>

\* POST /api/posts without a file part: multer leaves req.file undefined and
\* the handler answers at once.
CreateNoFile ==
    /\ last' = Response("create", 400, NaN, "File non caricato", <<>>)
    /\ UNCHANGED <<postsJson, uploads, now, inflight, serial, raced, nUploads, ioFaults, readable>>

\* The record the POST handler builds.
newPost(file, body, clock, tags) ==
    [id |-> clock,
     type |-> IF StartsWith(file.mimetype, "image/") THEN "image" ELSE "video",
     url |-> UrlOf(file.filename),
     title |-> body.title,
     description |-> body.description,
     date |-> IF Truthy(body.date) THEN body.date ELSE Str(ISODate(clock)),
     tags |-> tags,
     externalLink |-> normLink(body.externalLink)]

\* The POST /api/posts handler for a request whose file multer has stored.
\* unlinkFails: fs.unlinkSync throws although the file exists.
HandleCreate(req, body, unlinkFails) ==
    /\ req \in inflight
    /\ IF ~Truthy(body.title) \/ ~Truthy(body.description)
       THEN IF req.filename \notin uploads \/ unlinkFails
            THEN /\ last' = Response("create", 500, NaN, "Errore nel creare il post", <<>>)
                 /\ inflight' = inflight \ {req}
                 /\ UNCHANGED <<postsJson, uploads, serial, raced>>
            ELSE /\ uploads' = uploads \ {req.filename}
                 /\ last' = Response("create", 400, NaN, "Titolo e descrizione sono obbligatori", <<>>)
                 /\ inflight' = inflight \ {req}
                 /\ UNCHANGED <<postsJson, serial, raced>>
       ELSE LET posts == readPosts
                parsed == IF Truthy(body.tags) THEN JsonParse(body.tags.s)
                          ELSE [ok |-> TRUE, v |-> Arr(<<>>)]
                post == newPost(req, body, now, parsed.v)
            IN  IF readThrows \/ ~parsed.ok
                THEN /\ last' = Response("create", 500, NaN, "Errore nel creare il post", <<>>)
                     /\ inflight' = inflight \ {req}
                     /\ UNCHANGED <<postsJson, uploads, serial, raced>>
                ELSE /\ postsJson' = writePosts(unshift(posts, post))
                     /\ last' = Response("create", 201, Num(post.id), "", <<post>>)
                     /\ serial' = ApplyAck(serial, Ack("create", Num(post.id), post))
                     /\ raced' = (raced \/ req.overtaken)
                     /\ inflight' = Overtaken(inflight \ {req})
                     /\ UNCHANGED uploads
    /\ UNCHANGED <<now, nUploads, ioFaults, readable>>

\* GET /api/posts
List ==
    /\ IF readThrows
       THEN last' = Response("list", 500, NaN, "Errore nel recupero dei post", <<>>)
       ELSE last' = Response("list", 200, NaN, "", readPosts)
    /\ UNCHANGED <<postsJson, uploads, now, inflight, serial, raced, nUploads, ioFaults, readable>>

\* GET /api/posts/:id
Get(idParam) ==
    /\ LET posts == readPosts
           id == paramId[idParam]
           i == findIndex(posts, id)
       IN  IF readThrows
           THEN last' = Response("get", 500, id, "Errore nel recupero del post", <<>>)
           ELSE IF i = 0
           THEN last' = Response("get", 404, id, "Post non trovato", <<>>)
           ELSE last' = Response("get", 200, id, "", <<posts[i]>>)
    /\ UNCHANGED <<postsJson, uploads, now, inflight, serial, raced, nUploads, ioFaults, readable>>

\* DELETE /api/posts/:id
Delete(idParam, unlinkFails) ==
    /\ LET posts == readPosts
           id == paramId[idParam]
           postIndex == findIndex(posts, id)
       IN  IF readThrows
           THEN /\ last' = Response("delete", 500, id, "Errore nell'eliminare il post", <<>>)
                /\ UNCHANGED <<postsJson, uploads, inflight, serial>>
           ELSE IF postIndex = 0
           THEN /\ last' = Response("delete", 404, id, "Post non trovato", <<>>)
                /\ UNCHANGED <<postsJson, uploads, inflight, serial>>
           ELSE LET post == posts[postIndex]
                    filePath == FileOf(post.url)
                IN  IF filePath \in uploads /\ unlinkFails
                    THEN /\ last' = Response("delete", 500, id, "Errore nell'eliminare il post", <<>>)
                         /\ UNCHANGED <<postsJson, uploads, inflight, serial>>
                    ELSE /\ uploads' = uploads \ {filePath}
                         /\ postsJson' = writePosts(splice(posts, postIndex))
                         /\ last' = Response("delete", 200, id, "", <<>>)
                         /\ serial' = ApplyAck(serial, Ack("delete", id, post))
                         /\ inflight' = Overtaken(inflight)
    /\ UNCHANGED <<now, raced, nUploads, ioFaults, readable>>

\* externalLink.trim() throws a TypeError for a truthy value that is no string.
trimThrows(v) == Truthy(v) /\ v.t # "string"

\* A handler that assigns the title and marks the record as an image.
applyUpdateRetype(post, body) ==
    [post EXCEPT
        !.title = IF Truthy(body.title) THEN body.title ELSE @,
        !.type = "image"]

\* The record after the assignments of the PUT handler.
applyUpdate(post, body) ==
    [post EXCEPT
        !.title = IF Truthy(body.title) THEN body.title ELSE @,
        !.description = IF Truthy(body.description) THEN body.description ELSE @,
        !.date = IF Truthy(body.date) THEN body.date ELSE @,
        !.tags = IF Truthy(body.tags) THEN body.tags ELSE @,
        !.externalLink = IF body.externalLink # Undefined
                         THEN normLink(body.externalLink) ELSE @]

\* PUT /api/posts/:id
Update(idParam, body) ==
    /\ LET posts == readPosts
           id == paramId[idParam]
           postIndex == findIndex(posts, id)
       IN  IF readThrows
           THEN /\ last' = Response("update", 500, id, "Errore nell'aggiornare il post", <<>>)
                /\ UNCHANGED <<postsJson, inflight, serial>>
           ELSE IF postIndex = 0
           THEN /\ last' = Response("update", 404, id, "Post non trovato", <<>>)
                /\ UNCHANGED <<postsJson, inflight, serial>>
           ELSE IF trimThrows(body.externalLink)
           THEN /\ last' = Response("update", 500, id, "Errore nell'aggiornare il post", <<>>)
                /\ UNCHANGED <<postsJson, inflight, serial>>
           ELSE LET post == applyUpdate(posts[postIndex], body)
                IN  /\ postsJson' = writePosts([posts EXCEPT ![postIndex] = post])
                    /\ last' = Response("update", 200, id, "", <<post>>)
                    /\ serial' = ApplyAck(serial, Ack("update", id, post))
                    /\ inflight' = Overtaken(inflight)
    /\ UNCHANGED <<uploads, now, raced, nUploads, ioFaults, readable>>

\* The outcomes of fs.unlinkSync on an existing file.
UnlinkOutcomes == IF ioFaults THEN {FALSE, TRUE} ELSE {FALSE}

Next ==
    \/ Tick
    \/ \E file \in Files, rnd \in 0..MaxRnd : Upload(file, rnd)
    \/ CreateNoFile
    \/ \E req \in inflight, body \in CreateBodies, f \in UnlinkOutcomes :
          HandleCreate(req, body, f)
    \/ \E idParam \in PathIds, f \in UnlinkOutcomes : Delete(idParam, f)
    \/ \E idParam \in PathIds, body \in UpdateBodies : Update(idParam, body)

Spec == Init /\ [][Next]_vars

\* The same server where fs.unlinkSync may fail on an existing file.
InitIO == Init0 /\ ioFaults = TRUE

SpecIO == InitIO /\ [][Next]_vars

\* -------------------------------------------------------------------- claims

PostIndexes == 1..Len(postsJson)

\* The names of the files that the urls of the post records name.
ReferencedFiles == {FileOf(postsJson[i].url) : i \in PostIndexes}

\* C1: no two post records in the persisted collection have the same id.
C1_UniqueIds ==
    \A i, j \in PostIndexes : i # j => postsJson[i].id # postsJson[j].id

\* C2: for every post record, the file its url names is in the content
\* directory.
C2_UrlFileExists == \A f \in ReferencedFiles : f \in uploads

\* C3: every file in the content directory is referenced by the url of a post
\* record, or belongs to a create request whose handler has not run yet: a
\* create request that has ended without adding a record has left no file.
C3_NoOrphanedFile ==
    \A f \in uploads :
        f \in ReferencedFiles \/ \E r \in inflight : r.filename = f

C5_UploadNamesDistinct ==
    /\ \A r1, r2 \in inflight : r1 # r2 => r1.filename # r2.filename
    /\ \A r \in inflight : r.filename \notin ReferencedFiles
    /\ \A i, j \in PostIndexes : i # j => postsJson[i].url # postsJson[j].url

\* The DELETE handler runs on a path id that a record of the collection has.
DeleteOfPresent(idParam) ==
    /\ findIndex(postsJson, parseInt(idParam)) # 0
    /\ \E f \in UnlinkOutcomes : Delete(idParam, f)

\* C6: a DELETE of an existing post removes the record and persists the
\* document also when the removal of the backing file fails.
C6_DeleteBestEffort ==
    [][\A idParam \in PathIds :
          DeleteOfPresent(idParam) =>
              postsJson' = splice(postsJson, findIndex(postsJson, parseInt(idParam)))]_vars

\* C7: a DELETE of an id present in the collection responds 200, after which
\* no record of the list has that id and the backing file is not in the content
\* directory.
C7_DeleteCascade ==
    [][\A idParam \in PathIds :
          DeleteOfPresent(idParam) =>
              LET i == findIndex(postsJson, parseInt(idParam))
              IN  /\ last'.status = 200
                  /\ findIndex(postsJson', parseInt(idParam)) = 0
                  /\ FileOf(postsJson[i].url) \notin uploads']_vars

\* The POST handler runs on a request with a stored file and an empty or
\* absent title or description.
CreateWithoutTitleOrDescription(req) ==
    \E body \in CreateBodies, f \in UnlinkOutcomes :
        /\ ~Truthy(body.title) \/ ~Truthy(body.description)
        /\ HandleCreate(req, body, f)

\* C8: a POST without a file part responds 400 and leaves the collection
\* unchanged; a POST with a stored file and an empty or absent title or
\* description responds 400, leaves the collection unchanged and removes the
\* uploaded file from the content directory.
C8_CreateValidation ==
    [][/\ CreateNoFile => last'.status = 400 /\ postsJson' = postsJson
       /\ \A req \in inflight :
             CreateWithoutTitleOrDescription(req) =>
                 /\ last'.status = 400
                 /\ postsJson' = postsJson
                 /\ req.filename \notin uploads']_vars

\* A create request is rejected by validation: it has no file part, its file
\* is of a type that is not allowed or is over the size limit, or its title or
\* description is missing.
CreateRejected ==
    \/ CreateNoFile
    \/ \E file \in Files, rnd \in 0..MaxRnd :
          /\ ~fileFilter(file) \/ file.size > fileSize
          /\ Upload(file, rnd)
    \/ \E req \in inflight : CreateWithoutTitleOrDescription(req)

\* C9: every create request rejected by validation is answered with status
\* 400, and no record is created.
C9_RejectedWith400 ==
    [][CreateRejected => last'.status = 400 /\ postsJson' = postsJson]_vars

\* ------------------------------------------------------- the file-type gate

\* Uploads only, over FilterFiles.
NextFilter ==
    \/ Tick
    \/ \E file \in FilterFiles : Upload(file, 0)

SpecFilter == Init /\ [][NextFilter]_vars

\* The extension of the declared name, without its dot and in lower case, is
\* one of the words of the allow-list.
ExtensionInAllowList(file) ==
    LET e == ExtName(file.originalname)
    IN  e # "" /\ ToLowerCase(SubSeq(e, 2, Len(e))) \in allowedTypes

\* The declared MIME type names one of the words of the allow-list.
MimeInAllowList(file) == \E w \in allowedTypes : Contains(file.mimetype, w)

\* C10: an upload is accepted if and only if the extension of the declared
\* name is, whatever its case, one of the words of the allow-list and the
\* declared MIME type matches the allow-list; a rejected upload writes no
\* file to the content directory.
C10_FileTypeGate ==
    [][\A file \in FilterFiles :
          Upload(file, 0) =>
              LET allowed == ExtensionInAllowList(file) /\ MimeInAllowList(file)
              IN  /\ inflight' # inflight <=> allowed
                  /\ ~allowed => uploads' = uploads]_vars

\* ----------------------------------------------------------------- ordering

\* The POST handler runs on a stored file and answers 201.
Created(req, body) ==
    /\ \E f \in UnlinkOutcomes : HandleCreate(req, body, f)
    /\ last'.status = 201

\* The indexes at which the document of the next state differs.
Changed == {j \in PostIndexes : postsJson'[j] # postsJson[j]}

\* C11: a successful create puts the new record in front of the records
\* there were, so that creating A then B gives [B, A]; an update keeps the
\* number of records and every record at its position, changing one record at
\* most; a successful delete removes exactly one record and keeps the order of
\* the others; no other answer of update or delete changes the collection.
C11_Ordering ==
    [][/\ \A req \in inflight, body \in CreateBodies :
             Created(req, body) =>
                 /\ Len(postsJson') = Len(postsJson) + 1
                 /\ postsJson'[1] = last'.body[1]
                 /\ SubSeq(postsJson', 2, Len(postsJson')) = postsJson
       /\ \A idParam \in PathIds, body \in UpdateBodies :
             Update(idParam, body) =>
                 /\ Len(postsJson') = Len(postsJson)
                 /\ \A j \in PostIndexes :
                       /\ postsJson'[j].id = postsJson[j].id
                       /\ postsJson'[j].url = postsJson[j].url
                 /\ Cardinality(Changed) <= 1
       /\ \A idParam \in PathIds, f \in UnlinkOutcomes :
             Delete(idParam, f) =>
                 IF last'.status = 200
                 THEN \E k \in PostIndexes :
                         postsJson' = SubSeq(postsJson, 1, k - 1)
                                        \o SubSeq(postsJson, k + 1, Len(postsJson))
                 ELSE postsJson' = postsJson]_vars

\* C11, witness: B has been created after A and is listed before it.
C11_NewestFirst ==
    /\ Len(postsJson) = 2
    /\ last.op = "create" /\ last.status = 201
    /\ postsJson[1] = last.body[1]
    /\ postsJson[1] # postsJson[2]

\* ------------------------------------------------------------------- editing

\* The fields title, description, date, tags and externalLink of a body.
Body(title, description, date, tags, externalLink) ==
    [title |-> title, description |-> description, date |-> date,
     tags |-> tags, externalLink |-> externalLink]

\* The file part of the editing runs, a video.
EditFiles ==
    {[originalname |-> "a.mp4", mimetype |-> "video/mp4", size |-> 1]}

\* Multipart bodies of a POST, all fields being strings or absent: the
\* required fields only; every field, the link with white space around it;
\* an empty title; a blank link.
EditCreateBodies ==
    {Body(Str("T"), Str("D"), Undefined, Undefined, Undefined),
     Body(Str("T"), Str("D"), Str("2020-01-02"), Str("[\"a\"]"), Str(" x ")),
     Body(Str(""), Str("D"), Undefined, Undefined, Undefined),
     Body(Str("T"), Str("D"), Undefined, Undefined, Str(" "))}

\* JSON bodies of a PUT, the fields being any JSON value or absent.
EditUpdateBodies ==
    {Body(Undefined, Undefined, Undefined, Undefined, Undefined),
     Body(Str("U"), Str("E"), Str("2021-03-04"), Arr(<<"b">>), Undefined),
     Body(Str(""), Null, Num(0), Str(""), Undefined),
     Body(Undefined, Undefined, Undefined, Arr(<<>>), Undefined),
     Body(Arr(<<>>), Undefined, Undefined, Undefined, Undefined),
     Body(Undefined, Undefined, Undefined, Undefined, Str("")),
     Body(Undefined, Undefined, Undefined, Undefined, Str(" ")),
     Body(Undefined, Undefined, Undefined, Undefined, Str(" x ")),
     Body(Undefined, Undefined, Undefined, Undefined, Null),
     Body(Undefined, Undefined, Undefined, Undefined, Num(5))}

\* Creates and updates over these bodies.
NextEdit ==
    \/ Tick
    \/ \E file \in EditFiles : Upload(file, 0)
    \/ \E req \in inflight, body \in EditCreateBodies : HandleCreate(req, body, FALSE)
    \/ \E idParam \in PathIds, body \in EditUpdateBodies : Update(idParam, body)

SpecEdit == Init /\ [][NextEdit]_vars

\* The JSON bodies of a PUT that carry an externalLink.
LinkUpdateBodies == {body \in EditUpdateBodies : body.externalLink # Undefined}

\* Creates, and the updates of the link.
NextLink ==
    \/ Tick
    \/ \E file \in EditFiles : Upload(file, 0)
    \/ \E req \in inflight, body \in EditCreateBodies : HandleCreate(req, body, FALSE)
    \/ \E idParam \in PathIds, body \in LinkUpdateBodies : Update(idParam, body)

SpecLink == Init /\ [][NextLink]_vars

\* The record at index j is the first one whose id the path parameter names.
Addressed(idParam, j) ==
    /\ Num(postsJson[j].id) = paramId[idParam]
    /\ \A k \in 1..(j - 1) : Num(postsJson[k].id) # paramId[idParam]

\* C12: a PUT never changes the id, the type or the url of a record, never
\* changes a record other than the one it addresses, and never changes the
\* number of records or the content directory.
C12_UpdateFrame ==
    [][\A idParam \in PathIds, body \in EditUpdateBodies :
          last'.op = "update" /\ Update(idParam, body) =>
              /\ Len(postsJson') = Len(postsJson)
              /\ uploads' = uploads
              /\ \A j \in PostIndexes :
                    /\ postsJson'[j].id = postsJson[j].id
                    /\ postsJson'[j].type = postsJson[j].type
                    /\ postsJson'[j].url = postsJson[j].url
                    /\ ~Addressed(idParam, j) => postsJson'[j] = postsJson[j]]_vars

\* C12, witness: a PUT has changed the second of two records, a video.
C12_Updated ==
    /\ Len(postsJson) = 2
    /\ last.op = "update" /\ last.status = 200
    /\ last.body[1].title = Str("U")
    /\ postsJson[2] = last.body[1]
    /\ postsJson[2].type = "video"
    /\ postsJson[1] # postsJson[2]

\* A field of a body is absent, falsy or empty.
EmptyValue(v) == ~Truthy(v) \/ (v.t = "array" /\ v.a = <<>>)

\* A field of a body is an empty or blank string.
BlankString(v) == v.t = "string" /\ Trim(v.s) = ""

\* C13: for a PUT on an existing post, a title, description, date or tags
\* value that is absent, falsy or empty leaves the stored field unchanged; an
\* absent externalLink leaves the stored link unchanged, and an externalLink
\* that is an empty or blank string sets the stored link to null.
C13_PartialUpdate ==
    [][\A idParam \in PathIds, body \in EditUpdateBodies :
          last'.op = "update" /\ Update(idParam, body) =>
              \A j \in PostIndexes :
                  Addressed(idParam, j) =>
                      /\ EmptyValue(body.title) =>
                            postsJson'[j].title = postsJson[j].title
                      /\ EmptyValue(body.description) =>
                            postsJson'[j].description = postsJson[j].description
                      /\ EmptyValue(body.date) =>
                            postsJson'[j].date = postsJson[j].date
                      /\ EmptyValue(body.tags) =>
                            postsJson'[j].tags = postsJson[j].tags
                      /\ body.externalLink = Undefined =>
                            postsJson'[j].externalLink = postsJson[j].externalLink
                      /\ BlankString(body.externalLink) =>
                            postsJson'[j].externalLink = Null]_vars

\* ------------------------------------------------------------------- reading

\* Creates, updates, deletes and reads, the path parameters being ReadPathIds.
NextRead ==
    \/ Tick
    \/ \E file \in EditFiles : Upload(file, 0)
    \/ \E req \in inflight, body \in EditCreateBodies : HandleCreate(req, body, FALSE)
    \/ \E idParam \in ReadPathIds, body \in UpdateBodies : Update(idParam, body)
    \/ \E idParam \in ReadPathIds : Delete(idParam, FALSE)
    \/ \E idParam \in ReadPathIds : Get(idParam)
    \/ List

SpecRead == Init /\ [][NextRead]_vars

\* No record of the collection has the id that the path parameter spells.
NoRecordHas(idParam) ==
    \A i \in PostIndexes : ToString(postsJson[i].id) # idParam

\* A GET, PUT or DELETE on the path parameter is handled.
ByIdRequest(idParam) ==
    \/ Get(idParam)
    \/ \E body \in UpdateBodies : Update(idParam, body)
    \/ Delete(idParam, FALSE)

\* C14: a GET, PUT or DELETE on an id that no record has responds 404 and
\* leaves the document and the content directory unchanged.
C14_NotFound ==
    [][\A idParam \in ReadPathIds :
          NoRecordHas(idParam) /\ ByIdRequest(idParam) =>
              /\ last'.status = 404
              /\ postsJson' = postsJson
              /\ uploads' = uploads]_vars

\* A GET on the id that the last response, that of a successful create, gave.
FetchCreated(idParam) ==
    /\ last.op = "create" /\ last.status = 201
    /\ idParam = ToString(last.id.n)
    /\ Get(idParam)

\* The GET answers 200 with the record that the create returned.
FetchedIsCreated == last'.status = 200 /\ last'.body = last.body

\* C15, as claimed: after a successful create, fetching by the returned id
\* returns the record that the create returned, and the title, description,
\* date, tags and externalLink of that record are the values the client
\* supplied (the tags decoded from their JSON text).
C15_RoundTripAsSupplied ==
    [][/\ \A req \in inflight, body \in EditCreateBodies :
             Created(req, body) =>
                 LET r == last'.body[1]
                 IN  /\ r.title = body.title
                     /\ r.description = body.description
                     /\ body.date # Undefined => r.date = body.date
                     /\ body.tags # Undefined => r.tags = JsonParse(body.tags.s).v
                     /\ body.externalLink # Undefined =>
                           r.externalLink = body.externalLink
       /\ \A idParam \in ReadPathIds :
             FetchCreated(idParam) => FetchedIsCreated]_vars

\* C15, amended: after a successful create, fetching by the returned id
\* returns the record that the create returned; its title and description
\* are the supplied values, its date is the supplied value or, without one,
\* the day of the creation, its tags are the supplied value decoded or,
\* without one, the empty list, and its externalLink is the supplied value
\* without the white space around it, or null when that is empty or no link
\* was supplied.
C15_RoundTrip ==
    [][/\ \A req \in inflight, body \in EditCreateBodies :
             Created(req, body) =>
                 LET r == last'.body[1]
                 IN  /\ r.title = body.title
                     /\ r.description = body.description
                     /\ r.date = IF Truthy(body.date) THEN body.date
                                 ELSE Str(ISODate(now))
                     /\ r.tags = IF Truthy(body.tags) THEN JsonParse(body.tags.s).v
                                 ELSE Arr(<<>>)
                     /\ r.externalLink =
                           IF body.externalLink = Undefined
                                \/ BlankString(body.externalLink)
                           THEN Null ELSE Str(Trim(body.externalLink.s))
       /\ \A idParam \in ReadPathIds :
             FetchCreated(idParam) => FetchedIsCreated]_vars

\* C15, witness: a record created with a date, tags and a link has been
\* fetched by its id, a second record being in the collection.
C15_Fetched ==
    /\ last.op = "get" /\ last.status = 200
    /\ Len(postsJson) = 2
    /\ postsJson[1] = last.body[1]
    /\ last.body[1].date = Str("2020-01-02")
    /\ last.body[1].tags = Arr(<<"a">>)
    /\ last.body[1].externalLink = Str("x")

\* C16: every post record of the collection has a title and a description
\* that are not empty.
C16_TitleAndDescription ==
    \A i \in PostIndexes :
        /\ ~EmptyValue(postsJson[i].title)
        /\ ~EmptyValue(postsJson[i].description)

\* C17: the externalLink of every post record is null or a string that is not
\* empty and has no white space at its start or at its end.
C17_LinkNormalised ==
    \A i \in PostIndexes :
        LET l == postsJson[i].externalLink
        IN  \/ l = Null
            \/ l.t = "string" /\ l.s # "" /\ Trim(l.s) = l.s
                  /\ ~IsSpace(CharAt(l.s, 1)) /\ ~IsSpace(CharAt(l.s, Len(l.s)))

\* C17, witness: a PUT has set the link of one record and the link of another
\* record is null.
C17_LinkSet ==
    /\ Len(postsJson) = 2
    /\ last.op = "update" /\ last.status = 200
    /\ postsJson[1].externalLink = Str("x")
    /\ postsJson[2].externalLink = Null

\* The path parameter is an integer literal: decimal digits and nothing else.
IsIntegerLiteral(idParam) ==
    idParam # "" /\ \A i \in 1..Len(idParam) : IsDigit(CharAt(idParam, i))

\* C18: a GET, PUT or DELETE on a path parameter that is not an integer
\* literal matches no record: it is answered 404 and changes no record.
C18_NonIntegerNotFound ==
    [][\A idParam \in ReadPathIds :
          ~IsIntegerLiteral(idParam) /\ ByIdRequest(idParam) =>
              last'.status = 404 /\ postsJson' = postsJson]_vars

\* ------------------------------------------------------- store read failure

\* ./posts.json is removed, made unreadable or overwritten with text that is
\* not JSON, by something other than the server: from then on
\* fs.readFileSync or JSON.parse throws in readPosts.
Damage ==
    /\ readable
    /\ readable' = FALSE
    /\ UNCHANGED <<postsJson, uploads, now, inflight, last, serial, raced, nUploads, ioFaults>>

\* Every route, and the damage of the document.
NextStore ==
    \/ Tick
    \/ \E file \in EditFiles : Upload(file, 0)
    \/ CreateNoFile
    \/ \E req \in inflight, body \in CreateBodies : HandleCreate(req, body, FALSE)
    \/ \E idParam \in PathIds, body \in UpdateBodies : Update(idParam, body)
    \/ \E idParam \in PathIds : Delete(idParam, FALSE)
    \/ \E idParam \in PathIds : Get(idParam)
    \/ List
    \/ Damage

SpecStore == Init /\ [][NextStore]_vars

\* A request on a route whose handler reads the document and that needs no
\* file part: list, get, update, delete.
ReadingRequest ==
    \/ List
    \/ \E idParam \in PathIds :
          \/ Get(idParam)
          \/ \E body \in UpdateBodies : Update(idParam, body)
          \/ Delete(idParam, FALSE)

\* A create request is answered by the POST handler.
CreateRequest ==
    \/ CreateNoFile
    \/ \E req \in inflight, body \in CreateBodies : HandleCreate(req, body, FALSE)

\* A create request with a stored file, a title and a description is
\* answered: the POST handler gets to read the document.
CreateRequestComplete ==
    \E req \in inflight, body \in CreateBodies :
        /\ Truthy(body.title) /\ Truthy(body.description)
        /\ HandleCreate(req, body, FALSE)

\* C19, as claimed: while the document cannot be read, every request to list,
\* get, create, update or delete responds 500, the document is not rewritten
\* and no file that backs a post is removed.
C19_ReadFailure500 ==
    [][~readable /\ (ReadingRequest \/ CreateRequest) =>
          /\ last'.status = 500
          /\ postsJson' = postsJson /\ readable' = readable
          /\ \A f \in ReferencedFiles : f \in uploads => f \in uploads']_vars

\* C19, amended: while the document cannot be read, every request whose
\* handler reads it (list, get, update, delete, and a create with a file, a
\* title and a description) responds 500, the document is not rewritten and
\* no file is removed from the content directory.
C19_ReadFailure ==
    [][~readable /\ (ReadingRequest \/ CreateRequestComplete) =>
          /\ last'.status = 500
          /\ postsJson' = postsJson /\ readable' = readable
          /\ uploads' = uploads]_vars

\* C19, witness: the document holds a post and cannot be read, and a DELETE of
\* that post has been answered 500.
C19_DeleteRefused ==
    /\ ~readable
    /\ last.op = "delete" /\ last.status = 500
    /\ Len(postsJson) >= 1
    /\ last.id = Num(postsJson[1].id)
    /\ FileOf(postsJson[1].url) \in uploads

====
